---- MODULE Spec2Model ----
(***************************************************************************)
(* Sales-Data-Analyzer: the aggregation and query-routing core             *)
(* (agents/data_analzyer.py, agents/query_finder.py,                       *)
(* crew/sales_analysis_crew.py, main.py) as a state machine.               *)
(*                                                                         *)
(* Text is a sequence of symbols.  Text on which the code does substring   *)
(* or token work (queries, make names, digits) is spelled character by     *)
(* character; the fixed fragments of the source's messages are one symbol  *)
(* each.  A multi-line text ("\n".join(lines)) is the sequence of lines.   *)
(* A missing cell (NaN) of a text column is the empty text, a missing      *)
(* number is NaN == -1 (quantities and prices are non-negative).           *)
(* The Year column holds Timestamps of January 1st; a Timestamp is         *)
(* represented by its year.                                                *)
(***************************************************************************)
EXTENDS Integers, Sequences, FiniteSets, TLC

\* ------------------------------------------------------------------ bounds
MaxRows == 3

\* ------------------------------------------------------------- str methods
Digits == {"0", "1", "2", "3", "4", "5", "6", "7", "8", "9"}

LowerChar(c) ==
  CASE c = "T" -> "t" [] c = "H" -> "h" [] c = "F" -> "f" [] c = "V" -> "v"
    [] c = "S" -> "s" [] c = "O" -> "o" [] c = "P" -> "p" [] c = "W" -> "w"
    [] c = "R" -> "r" [] c = "B" -> "b" [] c = "E" -> "e" [] c = "C" -> "c"
    [] c = "X" -> "x" [] c = "Y" -> "y" [] c = "Z" -> "z" [] c = "N" -> "n"
    [] OTHER -> c

\* str.lower()
lower(s) == [i \in 1..Len(s) |-> LowerChar(s[i])]

\* Python's "needle in hay"
Contains(needle, hay) ==
  \E i \in 1..(Len(hay) - Len(needle) + 1) :
     SubSeq(hay, i, i + Len(needle) - 1) = needle

\* any(kw in text for kw in kws)
AnyIn(kws, text) == \E kw \in kws : Contains(kw, text)

RECURSIVE SplitFrom(_, _, _)
SplitFrom(s, i, cur) ==
  IF i > Len(s)
    THEN IF cur = <<>> THEN <<>> ELSE <<cur>>
    ELSE IF s[i] = " "
           THEN IF cur = <<>> THEN SplitFrom(s, i + 1, <<>>)
                              ELSE <<cur>> \o SplitFrom(s, i + 1, <<>>)
           ELSE SplitFrom(s, i + 1, Append(cur, s[i]))

\* str.split()
split(s) == SplitFrom(s, 1, <<>>)

\* list.index(w), 0-based; -1 stands for the ValueError it raises
index(words, w) ==
  IF \E i \in 1..Len(words) : words[i] = w
    THEN (CHOOSE i \in 1..Len(words) :
             words[i] = w /\ \A j \in 1..(i - 1) : words[j] # w) - 1
    ELSE -1

\* str.isdigit()
isdigit(w) == w # <<>> /\ \A i \in 1..Len(w) : w[i] \in Digits

DigitVal(c) ==
  CASE c = "0" -> 0 [] c = "1" -> 1 [] c = "2" -> 2 [] c = "3" -> 3
    [] c = "4" -> 4 [] c = "5" -> 5 [] c = "6" -> 6 [] c = "7" -> 7
    [] c = "8" -> 8 [] c = "9" -> 9

DigitChar(d) ==
  CASE d = 0 -> "0" [] d = 1 -> "1" [] d = 2 -> "2" [] d = 3 -> "3"
    [] d = 4 -> "4" [] d = 5 -> "5" [] d = 6 -> "6" [] d = 7 -> "7"
    [] d = 8 -> "8" [] d = 9 -> "9"

RECURSIVE int(_)
int(w) == IF Len(w) = 0 THEN 0
          ELSE 10 * int(SubSeq(w, 1, Len(w) - 1)) + DigitVal(w[Len(w)])

RECURSIVE str(_)
str(n) == IF n < 10 THEN <<DigitChar(n)>>
          ELSE str(n \div 10) \o <<DigitChar(n % 10)>>

\* the "," option of the format mini-language on a digit string
RECURSIVE Group(_)
Group(d) == IF Len(d) <= 3 THEN d
            ELSE Group(SubSeq(d, 1, Len(d) - 3)) \o <<",">>
                   \o SubSeq(d, Len(d) - 2, Len(d))

\* ------------------------------------------------------------------ numbers
NaN == -1

\* A column total is [v, float]: float64 when the column has a missing cell
\* (read_csv then types the column float64), int64 otherwise.
\* f"{x:,}"
FormatNum(x) == Group(str(x.v)) \o (IF x.float THEN <<".", "0">> ELSE <<>>)

RECURSIVE GCD(_, _)
GCD(a, b) == IF b = 0 THEN a ELSE GCD(b, a % b)

\* A mean or ratio (a float) is [kind, n, d]: the rational n/d in lowest
\* terms (d > 0), "nan" or "inf".
Rat(n, d) ==
  LET g == GCD(IF n < 0 THEN 0 - n ELSE n, d)
  IN  [kind |-> "num", n |-> n \div g, d |-> d \div g]
NaNValue  == [kind |-> "nan", n |-> 0, d |-> 1]
InfValue  == [kind |-> "inf", n |-> 0, d |-> 1]

\* f"{x:,.2f}": no mean of at most six integer prices lies on a rounding tie
Format2f(x) ==
  IF x.kind = "nan" THEN <<"n", "a", "n">>
  ELSE IF x.kind = "inf" THEN <<"i", "n", "f">>
  ELSE LET cents == (200 * x.n + x.d) \div (2 * x.d)
       IN  Group(str(cents \div 100)) \o <<".">>
             \o <<DigitChar((cents % 100) \div 10), DigitChar(cents % 10)>>

\* f"{x:.1%}"
Format1pct(x) ==
  IF x.kind = "nan" THEN <<"n", "a", "n", "%">>
  ELSE IF x.kind = "inf" THEN <<"i", "n", "f", "%">>
  ELSE LET neg   == x.n < 0
           a     == IF neg THEN 0 - x.n ELSE x.n
           tenth == (2000 * a + x.d) \div (2 * x.d)
       IN  (IF neg /\ tenth > 0 THEN <<"-">> ELSE <<>>)
             \o str(tenth \div 10) \o <<".", DigitChar(tenth % 10), "%">>

RECURSIVE SumSeq(_)
SumSeq(s) == IF s = <<>> THEN 0 ELSE Head(s) + SumSeq(Tail(s))

Range(s) == {s[i] : i \in 1..Len(s)}

\* ascending insertion sort of a sequence of integers
RECURSIVE Insert(_, _)
Insert(x, s) == IF s = <<>> THEN <<x>>
                ELSE IF x <= Head(s) THEN <<x>> \o s
                ELSE <<Head(s)>> \o Insert(x, Tail(s))

RECURSIVE SortInts(_)
SortInts(s) == IF s = <<>> THEN <<>> ELSE Insert(Head(s), SortInts(Tail(s)))

SetToSortedSeq(S) ==
  CHOOSE s \in [1..Cardinality(S) -> S] :
     /\ Range(s) = S
     /\ \A i \in 1..(Cardinality(S) - 1) : s[i] < s[i + 1]

\* ------------------------------------------------------ the record table
\* ord() of the characters that occur in category values
Ord(c) ==
  CASE c = "F" -> 70 [] c = "H" -> 72 [] c = "N" -> 78 [] c = "S" -> 83
    [] c = "T" -> 84 [] c = "X" -> 88 [] c = "Y" -> 89 [] c = "Z" -> 90
    [] c = "a" -> 97 [] c = "d" -> 100 [] c = "n" -> 110 [] c = "o" -> 111
    [] c = "r" -> 114 [] c = "t" -> 116 [] c = "y" -> 121

\* str.__lt__: the order of the (sorted) categories of a category column
RECURSIVE LexLess(_, _)
LexLess(a, b) ==
  IF a = <<>> THEN b # <<>>
  ELSE IF b = <<>> THEN FALSE
  ELSE IF Ord(Head(a)) # Ord(Head(b)) THEN Ord(Head(a)) < Ord(Head(b))
  ELSE LexLess(Tail(a), Tail(b))

PairLess(g, h) == LexLess(g[1], h[1]) \/ (g[1] = h[1] /\ LexLess(g[2], h[2]))

Toyota == <<"T", "o", "y", "o", "t", "a">>
toyota == <<"t", "o", "y", "o", "t", "a">>
Honda  == <<"H", "o", "n", "d", "a">>
Ford   == <<"F", "o", "r", "d">>
ModelX == <<"X">>
ModelY == <<"Y">>
ModelZ == <<"Z">>
North  == <<"N">>
South  == <<"S">>

Row(y, mk, md, q, p, rg) ==
  [Year |-> y, Make |-> mk, Model |-> md, Quantity |-> q, Price |-> p,
   Region |-> rg]

\* the rows a source file is made of
RowPool ==
  { Row(2020, Toyota, ModelX, 100,  20,  North),
    Row(2021, Honda,  ModelY, 50,   30,  South),
    Row(2022, Ford,   ModelZ, 200,  10,  North),
    Row(2021, Toyota, ModelX, 100,  40,  South),
    Row(2020, <<>>,   ModelX, 50,   20,  North),
    Row(2021, Honda,  ModelY, NaN,  NaN, <<>>),
    Row(2020, Honda,  ModelY, 0,    30,  South),
    Row(2021, toyota, ModelX, 50,   10,  North) }

RECURSIVE SeqsUpTo(_, _)
SeqsUpTo(S, n) ==
  IF n = 0 THEN {<<>>}
  ELSE LET shorter == SeqsUpTo(S, n - 1)
       IN  shorter \cup {Append(s, x) : s \in {t \in shorter : Len(t) = n - 1},
                                         x \in S}

RequiredCols == {"Year", "Make", "Model", "Quantity", "Price"}

\* data[mask]
Filter(rows, Keep(_)) == SelectSeq(rows, Keep)

Column(rows, Cell(_)) == [i \in 1..Len(rows) |-> Cell(rows[i])]

\* dtype of the Quantity / Price column
QtyFloat(data)   == \E i \in 1..Len(data.rows) : data.rows[i].Quantity = NaN
PriceFloat(data) == \E i \in 1..Len(data.rows) : data.rows[i].Price = NaN

\* Series.sum() skips missing cells
QtyOf(r) == IF r.Quantity = NaN THEN 0 ELSE r.Quantity
SumQuantity(data, rows) ==
  [v |-> SumSeq(Column(rows, QtyOf)), float |-> QtyFloat(data)]

Prices(rows) == Column(Filter(rows, LAMBDA r : r.Price # NaN),
                       LAMBDA r : r.Price)

\* Series.mean(), .min(), .max(), .median() of the Price column
MeanPrice(rows) ==
  LET ps == Prices(rows)
  IN  IF ps = <<>> THEN NaNValue ELSE Rat(SumSeq(ps), Len(ps))

MinPrice(rows) ==
  LET ps == SortInts(Prices(rows))
  IN  IF ps = <<>> THEN NaNValue ELSE Rat(ps[1], 1)

MaxPrice(rows) ==
  LET ps == SortInts(Prices(rows))
  IN  IF ps = <<>> THEN NaNValue ELSE Rat(ps[Len(ps)], 1)

MedianPrice(rows) ==
  LET ps == SortInts(Prices(rows))
      n  == Len(ps)
  IN  IF n = 0 THEN NaNValue
      ELSE IF n % 2 = 1 THEN Rat(ps[(n + 1) \div 2], 1)
      ELSE Rat(ps[n \div 2] + ps[n \div 2 + 1], 2)

\* groupby(['Make', 'Model'], observed=True): rows with a missing key are
\* dropped, only the observed pairs are groups
GroupKeys(rows) ==
  {<<rows[i].Make, rows[i].Model>> : i \in 1..Len(rows)}
    \ {g \in {<<rows[i].Make, rows[i].Model>> : i \in 1..Len(rows)} :
         g[1] = <<>> \/ g[2] = <<>>}

GroupRows(rows, g) == Filter(rows, LAMBDA r : r.Make = g[1] /\ r.Model = g[2])

\* groupby('Region', observed=True)
RegionKeys(rows) == {rows[i].Region : i \in 1..Len(rows)} \ {<<>>}

\* groupby('Year', observed=True)
YearKeys(rows) == {rows[i].Year : i \in 1..Len(rows)}
YearRows(rows, y) == Filter(rows, LAMBDA r : r.Year = y)

\* the per-year quantity totals in year order
YearlyTotals(rows) ==
  LET ys == SetToSortedSeq(YearKeys(rows))
  IN  [i \in 1..Len(ys) |-> SumSeq(Column(YearRows(rows, ys[i]), QtyOf))]

\* ------------------------------------------------------------- growth rate
\* one step of Series.pct_change(): float division, x/0 is inf, 0/0 is nan
PctChange(prev, cur) ==
  IF prev = 0 THEN (IF cur = 0 THEN NaNValue ELSE InfValue)
  ELSE Rat(cur - prev, prev)

RECURSIVE SumRat(_)
SumRat(vals) ==
  IF vals = <<>> THEN Rat(0, 1)
  ELSE LET rest == SumRat(Tail(vals))
           x    == Head(vals)
       IN  Rat(x.n * rest.d + rest.n * x.d, x.d * rest.d)

\* Series.mean(): skips nan (the first entry of pct_change is always nan);
\* the mean of no values is nan
MeanSkipNa(vals) ==
  LET nums == SelectSeq(vals, LAMBDA x : x.kind # "nan")
  IN  IF nums = <<>> THEN NaNValue
      ELSE IF \E i \in 1..Len(nums) : nums[i].kind = "inf" THEN InfValue
      ELSE LET s == SumRat(nums) IN Rat(s.n, s.d * Len(nums))

\* yearly_sales.pct_change().mean(); nothing here raises, so the 0.0 of the
\* except clause is never returned
_calculate_growth_rate(totals) ==
  MeanSkipNa([i \in 1..(Len(totals) - 1) |->
                 PctChange(totals[i], totals[i + 1])])

_calculate_yearly_growth(data) == _calculate_growth_rate(YearlyTotals(data.rows))

\* -------------------------------------------------------------- aggregator
\* Series.idxmax(): the first key, in category order, with the largest total
IdxMax(keys, Less(_, _), Total(_)) ==
  CHOOSE k \in keys :
     /\ \A h \in keys : Total(h) <= Total(k)
     /\ \A h \in keys : (Total(h) = Total(k) /\ h # k) => Less(k, h)

_get_top_make_model(data) ==
  IF data.rows = <<>> THEN <<"No data available">>
  ELSE LET clean == Filter(data.rows, LAMBDA r : r.Make # <<>> /\ r.Model # <<>>
                                                  /\ r.Quantity # NaN)
       IN  IF clean = <<>> THEN <<"No valid data available">>
           ELSE LET top == IdxMax(GroupKeys(clean), PairLess,
                                  LAMBDA g : SumSeq(Column(GroupRows(clean, g), QtyOf)))
                IN  top[1] \o <<" ">> \o top[2]

Error(msg) == [error |-> msg]

\* Each of the two helpers wraps its body in a try block of its own.  Their
\* bodies have no failing step on a table _load_data accepts, so their except
\* clauses run only when pandas itself raises inside them (MemoryError and
\* the like): which helper that happens in, if any, is an input of the call.
SummaryFaults == {"none", "_get_top_make_model", "_calculate_yearly_growth"}
Unknown    == <<"Unknown">>
ZeroGrowth == Rat(0, 1)

\* get_sales_summary with every exception of a helper turned into a failure
\* of the whole summary
get_sales_summary_all_or_nothing(data, fault) ==
  IF fault # "none"
    THEN Error(<<"exception in ", fault>>)
  ELSE IF "Region" \notin data.columns
    THEN Error(<<"'Region'">>)
  ELSE IF RegionKeys(data.rows) = {}
    THEN Error(<<"attempt to get argmax of an empty sequence">>)
  ELSE
    [total_sales    |-> FormatNum(SumQuantity(data, data.rows)) \o <<" units">>,
     average_price  |-> <<"$">> \o Format2f(MeanPrice(data.rows)),
     top_make_model |-> _get_top_make_model(data),
     top_region     |-> IdxMax(RegionKeys(data.rows), LexLess,
                          LAMBDA rg : SumSeq(Column(
                              Filter(data.rows, LAMBDA r : r.Region = rg), QtyOf))),
     yearly_growth  |-> _calculate_yearly_growth(data),
     price_distribution |->
        [min    |-> <<"$">> \o Format2f(MinPrice(data.rows)),
         max    |-> <<"$">> \o Format2f(MaxPrice(data.rows)),
         median |-> <<"$">> \o Format2f(MedianPrice(data.rows))]]

\* The dict is built field by field inside one try block: the first field
\* that raises (top_region: KeyError without the Region column, ValueError
\* from idxmax when no row has a region) turns the result into {error}.  An
\* exception inside a helper never gets that far: the helper returns its
\* placeholder and the field is built from it.
get_sales_summary(data, fault) ==
  IF "Region" \notin data.columns
    THEN Error(<<"'Region'">>)
  ELSE IF RegionKeys(data.rows) = {}
    THEN Error(<<"attempt to get argmax of an empty sequence">>)
  ELSE
    [total_sales    |-> FormatNum(SumQuantity(data, data.rows)) \o <<" units">>,
     average_price  |-> <<"$">> \o Format2f(MeanPrice(data.rows)),
     top_make_model |-> IF fault = "_get_top_make_model" THEN Unknown
                        ELSE _get_top_make_model(data),
     top_region     |-> IdxMax(RegionKeys(data.rows), LexLess,
                          LAMBDA rg : SumSeq(Column(
                              Filter(data.rows, LAMBDA r : r.Region = rg), QtyOf))),
     yearly_growth  |-> IF fault = "_calculate_yearly_growth" THEN ZeroGrowth
                        ELSE _calculate_yearly_growth(data),
     price_distribution |->
        [min    |-> <<"$">> \o Format2f(MinPrice(data.rows)),
         max    |-> <<"$">> \o Format2f(MaxPrice(data.rows)),
         median |-> <<"$">> \o Format2f(MedianPrice(data.rows))]]

\* Series.unique() of the Make column, in order of first appearance; a
\* missing cell is one of the values
RECURSIVE Unique(_, _)
Unique(vals, seen) ==
  IF vals = <<>> THEN <<>>
  ELSE IF Head(vals) \in seen THEN Unique(Tail(vals), seen)
  ELSE <<Head(vals)>> \o Unique(Tail(vals), seen \cup {Head(vals)})

UniqueMakes(data) == Unique(Column(data.rows, LAMBDA r : r.Make), {})

\* The assignment to data['Year'] re-parses Timestamps that are already
\* Timestamps and leaves the values as they are.  The KeyError of a missing
\* Region column is caught and becomes the whole result.
get_yearly_trends(data) ==
  IF "Region" \notin data.columns
    THEN Error(<<"'Region'">>)
  ELSE
    [total_by_year |->
        [y \in YearKeys(data.rows) |-> SumQuantity(data, YearRows(data.rows, y))],
     by_make |->
        [mk \in Range(UniqueMakes(data)) |->
           LET mine == Filter(data.rows, LAMBDA r : mk # <<>> /\ r.Make = mk)
           IN  [y \in YearKeys(mine) |-> SumQuantity(data, YearRows(mine, y))]],
     by_region |->
        LET known == Filter(data.rows, LAMBDA r : r.Region # <<>>)
        IN  [rg \in RegionKeys(known) |->
               [y \in YearKeys(known) |->
                  LET cell == Filter(known, LAMBDA r : r.Region = rg /\ r.Year = y)
                  IN  IF cell = <<>> THEN [v |-> NaN, float |-> TRUE]
                      ELSE SumQuantity(data, cell)]],
     growth_rate |-> _calculate_growth_rate(YearlyTotals(data.rows))]

\* -------------------------------------------------------------- LLM gateway
\* random.randint(100000, 999999)
MinCallId == 100000
MaxCallId == 999999
CallIds   == {MinCallId, MaxCallId}

TEST_OK_ == <<"T", "E", "S", "T", "_", "O", "K", "_">>

\* What self.llm.invoke does with a prompt: it raises, or it answers a text.
\* The texts: one without any identifier, and for every identifier one that
\* echoes it bare and one that echoes it as TEST_OK_<id>.
Raises == [raised |-> TRUE, content |-> <<>>]
Answers(text) == [raised |-> FALSE, content |-> text]
Replies ==
  {Raises, Answers(<<"o", "k">>)}
    \cup {Answers(str(id) \o <<" ", "o", "k">>) : id \in CallIds}
    \cup {Answers(TEST_OK_ \o str(id)) : id \in CallIds}

\* construction that accepts whatever the backend answers
GatewayConstructsUnverified(api_key, test_id, reply) ==
  /\ api_key
  /\ ~reply.raised

\* _initialize_llm and _verify_connection: TRUE when construction succeeds
GatewayConstructs(api_key, test_id, reply) ==
  /\ api_key
  /\ ~reply.raised
  /\ Contains(TEST_OK_ \o str(test_id), reply.content)

\* no call of execute_task, or one that returned before reaching the backend
NoExec == [called |-> FALSE, calls |-> 0, call_id |-> 0, reply |-> Raises,
           result |-> <<>>]

\* execute_task without the check of the echoed identifier
execute_task_unchecked(ready, call_id, reply) ==
  IF ~ready THEN [result |-> <<"LLM_NOT_INITIALIZED">>, exec |-> NoExec]
  ELSE LET result ==
             IF reply.raised THEN <<"LLM_ERROR: ", "backend failure">>
             ELSE reply.content
       IN  [result |-> result,
            exec   |-> [called |-> TRUE, calls |-> 1, call_id |-> call_id,
                        reply |-> reply, result |-> result]]

\* execute_task: the text it returns, and what was exchanged with the backend.
\* _call_llm invokes the backend once and re-raises; execute_task calls it
\* once and turns the exception into its result, so calls is 1.
execute_task(ready, call_id, reply) ==
  IF ~ready THEN [result |-> <<"LLM_NOT_INITIALIZED">>, exec |-> NoExec]
  ELSE LET result ==
             IF reply.raised THEN <<"LLM_ERROR: ", "backend failure">>
             ELSE IF ~Contains(str(call_id), reply.content)
               THEN <<"LLM_ERROR: ", "Call ID missing in response: ">>
                      \o reply.content
             ELSE reply.content
       IN  [result |-> result,
            exec   |-> [called |-> TRUE, calls |-> 1, call_id |-> call_id,
                        reply |-> reply, result |-> result]]

\* ------------------------------------------------------------ query router
ProjectionKws == {<<"p", "r", "o", "j", "e", "c", "t", "i", "o", "n">>, <<"f", "o", "r", "e", "c", "a", "s", "t">>, <<"p", "r", "e", "d", "i", "c", "t">>}
ComparisonKws == {<<"c", "o", "m", "p", "a", "r", "e">>, <<"v", "s">>, <<"v", "e", "r", "s", "u", "s">>}
RankingKws    == {<<"t", "o", "p">>, <<"b", "e", "s", "t">>, <<"w", "o", "r", "s", "t">>, <<"r", "a", "n", "k", "i", "n", "g">>}

\* the ranking keywords tested before the projection keywords
RouteRankingFirst(query) ==
  LET query_lower == lower(query)
  IN  IF AnyIn(RankingKws, query_lower) THEN "ranking"
      ELSE IF AnyIn(ProjectionKws, query_lower) THEN "projection"
      ELSE IF AnyIn(ComparisonKws, query_lower) THEN "comparison"
      ELSE "general"

\* the branch _process_query takes
Route(query) ==
  LET query_lower == lower(query)
  IN  IF AnyIn(ProjectionKws, query_lower) THEN "projection"
      ELSE IF AnyIn(ComparisonKws, query_lower) THEN "comparison"
      ELSE IF AnyIn(RankingKws, query_lower) THEN "ranking"
      ELSE "general"

\* ---------------------------------------------------------- query handlers
\* What a handler call does: the text it returns (or raised = TRUE when an
\* exception leaves the handler), the gateway exchange it made, and the
\* table as the handler leaves it.
Returned(text, exec, data) ==
  [raised |-> FALSE, text |-> text, exec |-> exec, data |-> data]
Propagated(exec, data) ==
  [raised |-> TRUE, text |-> <<>>, exec |-> exec, data |-> data]

\* _handle_projection_query: no try block of its own; execute_task catches
\* every failure of the exchange.  The identifier execute_task draws and the
\* backend's reply are the nondeterminism of the call.
_handle_projection_query(data, ready) ==
  {Returned(<<execute_task(ready, call_id, reply).result>>,
            execute_task(ready, call_id, reply).exec, data) :
     call_id \in CallIds, reply \in Replies}

RECURSIVE JoinVs(_)
JoinVs(names) ==
  IF names = <<>> THEN <<>>
  ELSE IF Len(names) = 1 THEN Head(names)
  ELSE Head(names) \o <<" vs ">> \o JoinVs(Tail(names))

\* data[data['Make'].str.lower() == target.lower()]
MakeRows(data, target) ==
  Filter(data.rows, LAMBDA r : r.Make # <<>> /\ lower(r.Make) = lower(target))

ComparisonLine(data, target) ==
  <<"- ">> \o target \o <<": ">>
    \o FormatNum(SumQuantity(data, MakeRows(data, target)))
    \o <<" units sold, ", "$">> \o Format2f(MeanPrice(MakeRows(data, target)))
    \o <<" avg price">>

_handle_comparison_query(data, query) ==
  LET makes   == UniqueMakes(data)
      targets == SelectSeq(makes, LAMBDA mk : Contains(lower(mk), lower(query)))
  IN  IF \E i \in 1..Len(makes) : makes[i] = <<>>
        \* make.lower() on a missing cell: AttributeError, caught below
        THEN {Returned(<<<<"Could not complete comparison: ",
                           "'float' object has no attribute 'lower'">>>>,
                       NoExec, data)}
      ELSE IF Len(targets) < 2
        THEN {Returned(<<<<"Could not identify two models/makes to compare">>>>,
                       NoExec, data)}
      ELSE {Returned(<<<<"Comparison: ">> \o JoinVs(targets)>>
                       \o [i \in 1..Len(targets) |-> ComparisonLine(data, targets[i])],
                     NoExec, data)}

DefaultTopN == 3

\* the n of the ranking handler; -1 stands for the ValueError of
\* words.index("top") when no token is the word "top"
TopN(query) ==
  LET words == split(lower(query))
      i     == index(words, <<"t", "o", "p">>)
  IN  IF ~Contains(<<"t", "o", "p">>, lower(query)) THEN DefaultTopN
      ELSE IF i = -1 THEN -1
      ELSE IF Len(words) > i + 1 /\ isdigit(words[i + 2]) THEN int(words[i + 2])
      ELSE DefaultTopN

RankBy(query) ==
  IF Contains(<<"e", "x", "p", "e", "n", "s", "i", "v", "e">>, lower(query)) THEN "Price"
  ELSE IF Contains(<<"r", "e", "v", "e", "n", "u", "e">>, lower(query)) THEN "Revenue"
  ELSE "Quantity"

\* data['Quantity'] * data['Price'] of one row; missing when either is
RevenueOf(r) == IF r.Quantity = NaN \/ r.Price = NaN THEN 0
                ELSE r.Quantity * r.Price

\* groupby(['Make', 'Model'], observed=True)[by].sum() of one group
Metric(data, by, g) ==
  LET rows == GroupRows(data.rows, g)
  IN  IF by = "Price"
        THEN [v |-> SumSeq(Prices(rows)), float |-> PriceFloat(data)]
      ELSE IF by = "Revenue"
        THEN [v |-> SumSeq(Column(rows, RevenueOf)),
              float |-> QtyFloat(data) \/ PriceFloat(data)]
      ELSE SumQuantity(data, rows)

\* sort_values(ascending=...): every order of the groups that is sorted by
\* the metric (the default sort is not stable, so ties may come in any order)
SortedOrders(data, by, ascending) ==
  LET keys == GroupKeys(data.rows)
      k    == Cardinality(keys)
  IN  {s \in [1..k -> keys] :
         /\ Range(s) = keys
         /\ \A i \in 1..(k - 1) :
              IF ascending
                THEN Metric(data, by, s[i]).v <= Metric(data, by, s[i + 1]).v
                ELSE Metric(data, by, s[i]).v >= Metric(data, by, s[i + 1]).v}

\* head that keeps one entry too many
head_one_more(s, n) == SubSeq(s, 1, IF n + 1 < Len(s) THEN n + 1 ELSE Len(s))

\* Series.head(n)
head(s, n) == SubSeq(s, 1, IF n < Len(s) THEN n ELSE Len(s))

RankingLine(data, by, g) ==
  IF by = "Price"
    THEN <<"- ">> \o g[1] \o <<" ">> \o g[2] \o <<": ", "$">>
           \o Format2f(Rat(Metric(data, by, g).v, 1))
    ELSE <<"- ">> \o g[1] \o <<" ">> \o g[2] \o <<": ">>
           \o FormatNum(Metric(data, by, g)) \o <<" units">>

\* the header line; the emoji in front of the title is left out
RankingHeader(ascending, n, by) ==
  <<IF ascending THEN "Worst" ELSE "Top", " ">> \o str(n) \o <<" by ", by, ":">>

\* the ranking handler without its except clause
_handle_ranking_query_uncaught(data, query) ==
  LET n         == TopN(query)
      by        == RankBy(query)
      ascending == Contains(<<"w", "o", "r", "s", "t">>, lower(query))
      after     == IF by = "Revenue"
                     THEN [data EXCEPT !.columns = @ \cup {"Revenue"}]
                     ELSE data
  IN  IF n = -1
        THEN {Propagated(NoExec, data)}
      ELSE {Returned(<<RankingHeader(ascending, n, by)>>
                       \o [i \in 1..Len(head(s, n)) |-> RankingLine(data, by, s[i])],
                     NoExec, after) : s \in SortedOrders(data, by, ascending)}

_handle_ranking_query(data, query) ==
  LET n         == TopN(query)
      by        == RankBy(query)
      ascending == Contains(<<"w", "o", "r", "s", "t">>, lower(query))
      after     == IF by = "Revenue"
                     THEN [data EXCEPT !.columns = @ \cup {"Revenue"}]
                     ELSE data
  IN  IF n = -1
        THEN {Returned(<<<<"Could not generate rankings: ",
                           "'top' is not in list">>>>, NoExec, data)}
      ELSE {Returned(<<RankingHeader(ascending, n, by)>>
                       \o [i \in 1..Len(head(s, n)) |-> RankingLine(data, by, s[i])],
                     NoExec, after) : s \in SortedOrders(data, by, ascending)}

\* _handle_general_query: the fallback reads self.query_handler.agent, an
\* attribute QueryHandlerAgent never sets; the AttributeError is caught by
\* the handler's except clause and no gateway exchange takes place
_handle_general_query(data, query) ==
  LET summary == get_sales_summary(data, "none")
  IN  IF Contains(<<"g", "r", "o", "w", "t", "h">>, lower(query)) /\ "yearly_growth" \in DOMAIN summary
        THEN {Returned(<<<<"Average yearly growth: ">>
                           \o Format1pct(summary.yearly_growth)>>, NoExec, data)}
        ELSE {Returned(<<<<"Could not process this query">>>>, NoExec, data)}

\* _process_query: the handler chosen and what it does
_process_query(data, query, ready) ==
  LET handler == Route(query)
      did ==
        IF handler = "projection"
          THEN _handle_projection_query(data, ready)
        ELSE IF handler = "comparison" THEN _handle_comparison_query(data, query)
        ELSE IF handler = "ranking" THEN _handle_ranking_query(data, query)
        ELSE _handle_general_query(data, query)
  IN  {[handler |-> handler, raised |-> d.raised, text |-> d.text,
        exec |-> d.exec, data |-> d.data] : d \in did}

\* ------------------------------------------------------------------ the crew
\* the questions typed at the prompt (main strips them; <<>> is the empty one)
Queries ==
  { <<"T", "o", "p", " ", "2">>,
    <<"t", "o", "p">>,
    <<"s", "t", "o", "p">>,
    <<"t", "o", "p", " ", "f", "o", "r", "e", "c", "a", "s", "t">>,
    <<"T", "o", "y", "o", "t", "a", " ", "v", "s", " ", "H", "o", "n", "d", "a">>,
    <<"c", "o", "m", "p", "a", "r", "e", " ", "t", "o", "y", "o", "t", "a">>,
    <<"g", "r", "o", "w", "t", "h">>,
    <<"t", "o", "t", "a", "l">>,
    <<"w", "o", "r", "s", "t">>,
    <<"t", "o", "p", " ", "2", " ", "r", "e", "v", "e", "n", "u", "e">>,
    <<"b", "e", "s", "t", " ", "e", "x", "p", "e", "n", "s", "i", "v", "e">>,
    <<"p", "r", "e", "d", "i", "c", "t">>,
    <<"H", "o", "n", "d", "a", " ", "v", "e", "r", "s", "u", "s", " ", "F", "o", "r", "d">>,
    <<"t", "o", "p", " ", "1", " ", "r", "a", "n", "k", "i", "n", "g">>,
    <<"p", "r", "o", "j", "e", "c", "t", "i", "o", "n", " ", "o", "f", " ", "g", "r", "o", "w", "t", "h">> }

FullCols == RequiredCols \cup {"Region"}

Distinct(s) == \A i, j \in 1..Len(s) : s[i] = s[j] => i = j

\* The source file: absent, or a header and rows, the rows being distinct
\* records in any order.  A file whose header lacks a required column is
\* never read past the header.
Files ==
  {[exists |-> FALSE, columns |-> {}, rows |-> <<>>],
   [exists |-> TRUE, columns |-> FullCols \ {"Price"}, rows |-> <<>>]}
    \cup [exists : {TRUE}, columns : {FullCols, RequiredCols},
          rows : {s \in SeqsUpTo(RowPool, MaxRows) : Distinct(s)}]

NoData     == [columns |-> {}, rows |-> <<>>]
NoDispatch == [query |-> <<>>, handler |-> "none", raised |-> FALSE, text |-> <<>>]
NoAnalysis == [none |-> TRUE]

\* History of the session: while main is at the prompt, the table object the
\* previous run call worked on, as that call left it; NoData on a crew that
\* has not run yet.
VARIABLE last_table

\* _load_data: load_data returns None for a header without the required
\* columns, and data.columns then raises; otherwise the Date column is added
Loads(f) == RequiredCols \subseteq f.columns

\* _load_data handing out the table of the previous run when there is one
_load_data_once(f) ==
  IF last_table # NoData THEN last_table
  ELSE [columns |-> f.columns \cup {"Date"}, rows |-> f.rows]

_load_data(f) == [columns |-> f.columns \cup {"Date"}, rows |-> f.rows]

Metadata(data) ==
  LET ys == SetToSortedSeq(YearKeys(data.rows))
  IN  [years_covered  |-> IF ys = <<>> THEN <<"NaT", " to ", "NaT">>
                          ELSE str(ys[1]) \o <<" to ">> \o str(ys[Len(ys)]),
       unique_models  |-> Cardinality({data.rows[i].Model : i \in 1..Len(data.rows)}
                                        \ {<<>>})]

\* SalesAnalysisCrew.run: the analysis it returns, the table it worked on,
\* the handler call it made and the gateway exchange of that call
run(f, query, ready, fault) ==
  IF ~Loads(f)
    THEN {[analysis |-> Error(<<"'NoneType' object has no attribute 'columns'">>),
           data |-> NoData, dispatch |-> NoDispatch, exec |-> NoExec]}
  ELSE
    LET data == _load_data(f)
        analysis == [summary  |-> get_sales_summary(data, fault),
                     trends   |-> get_yearly_trends(data),
                     metadata |-> Metadata(data)]
    IN  IF query = <<>>
          THEN {[analysis |-> analysis, data |-> data, dispatch |-> NoDispatch,
                 exec |-> NoExec]}
          ELSE {[analysis |-> IF p.raised THEN Error(<<"handler exception">>)
                              ELSE analysis @@ [query_response |-> p.text],
                 data     |-> p.data,
                 dispatch |-> [query |-> query, handler |-> p.handler,
                               raised |-> p.raised, text |-> p.text],
                 exec     |-> p.exec] :
                  p \in _process_query(data, query, ready)}

\* ------------------------------------------------------------------- state
VARIABLES
  pc,        \* where main is: "start", "constructed" (the crew exists),
             \* "tested" (test_llm_connection has returned), "menu" (at the
             \* prompt), "report" (an iteration of the loop has printed its
             \* output), "exit0", "exit1"
  file,      \* the source file data/car_sales.csv
  api_key,   \* whether GROQ_API_KEY is set
  llm,       \* QueryHandlerAgent.llm is set and verified (the gateway exists)
  verify,    \* the backend exchange of _verify_connection
  data,      \* the record table of the latest run, as the run left it
  analysis,  \* what the latest run returned
  fault,     \* the helper pandas raised in during the latest run's summary
  dispatch,  \* the handler call of the latest run
  exec,      \* the execute_task exchange of the latest run
  console    \* what main printed last

vars == <<pc, file, api_key, llm, verify, data, analysis, fault, dispatch, exec,
          console, last_table>>

NoVerify == [calls |-> 0, raised |-> FALSE, echoed |-> FALSE]

Init ==
  /\ pc = "start"
  /\ file \in Files
  /\ api_key \in BOOLEAN
  /\ llm = FALSE
  /\ verify = NoVerify
  /\ data = NoData
  /\ analysis = NoAnalysis
  /\ fault = "none"
  /\ dispatch = NoDispatch
  /\ exec = NoExec
  /\ console = "none"
  /\ last_table = NoData

\* --help or -h on the command line: the usage is printed and main is never
\* called
Help ==
  /\ pc = "start"
  /\ pc' = "exit0"
  /\ console' = "usage"
  /\ UNCHANGED <<file, api_key, llm, verify, data, analysis, fault, dispatch,
                 exec, last_table>>

\* What main's outer handler prints for the exception that
\* SalesAnalysisCrew.__init__ raises: _validate_data_file comes first, then
\* the gateway's _initialize_llm and _verify_connection
CriticalError(exists, key, test_id, reply) ==
  IF ~exists THEN "Critical Error: Data file not found"
  ELSE IF ~key THEN "Critical Error: GROQ_API_KEY missing in .env"
  ELSE IF reply.raised THEN "Critical Error: backend failure"
  ELSE "Critical Error: Verification failed"

\* main up to the construction of the crew: SalesAnalysisCrew.__init__
\* validates the file and constructs the gateway, which sends its one
\* verification prompt; any exception is a critical error and exit code 1
Startup ==
  /\ pc = "start"
  /\ \E test_id \in CallIds, reply \in Replies :
       /\ verify' = IF file.exists /\ api_key
                      THEN [calls   |-> 1,
                            raised  |-> reply.raised,
                            echoed  |-> /\ ~reply.raised
                                        /\ Contains(TEST_OK_ \o str(test_id),
                                                    reply.content)]
                      ELSE NoVerify
       /\ IF file.exists /\ GatewayConstructs(api_key, test_id, reply)
            THEN /\ pc' = "constructed"
                 /\ llm' = TRUE
                 /\ console' = "initialized"
            ELSE /\ pc' = "exit1"
                 /\ llm' = FALSE
                 /\ console' = CriticalError(file.exists, api_key, test_id, reply)
  /\ UNCHANGED <<file, api_key, data, analysis, fault, dispatch, exec,
                 last_table>>

\* --test-llm or --debug on the command line: test_llm_connection prints
\* what execute_task returns for its test question and catches whatever is
\* raised; with --test-llm main then exits.  The exchange of the test call
\* is not kept: exec is the exchange of a run call.
TestFlags == {"--test-llm", "--debug"}

TestLlm ==
  /\ pc = "constructed"
  /\ \E flag \in TestFlags :
       pc' = IF flag = "--test-llm" THEN "exit0" ELSE "tested"
  /\ console' = "llm_test"
  /\ UNCHANGED <<file, api_key, llm, verify, data, analysis, fault, dispatch,
                 exec, last_table>>

\* 'System ready': main enters the while loop
EnterMenu ==
  /\ pc \in {"constructed", "tested"}
  /\ pc' = "menu"
  /\ console' = "menu"
  /\ UNCHANGED <<file, api_key, llm, verify, data, analysis, fault, dispatch,
                 exec, last_table>>

\* one crew.run call of the menu loop; the table it works on takes the place
\* of the previous one
Runs(query, helper, shown(_)) ==
  \E r \in run(file, query, llm, helper) :
     /\ analysis' = r.analysis
     /\ fault' = helper
     /\ data' = r.data
     /\ dispatch' = r.dispatch
     /\ exec' = r.exec
     /\ console' = shown(r.analysis)
     /\ last_table' = NoData
     /\ pc' = "report"

\* choice 1: the summary is what is shown, and an exception inside one of
\* its helpers is drawn here
ChoiceSummary ==
  /\ pc = "menu"
  /\ \E helper \in SummaryFaults :
       Runs(<<>>, helper,
            LAMBDA a : IF "summary" \in DOMAIN a THEN "summary" ELSE "error")
  /\ UNCHANGED <<file, api_key, llm, verify>>

\* choice 2
ChoiceTrends ==
  /\ pc = "menu"
  /\ Runs(<<>>, "none",
          LAMBDA a : IF "trends" \in DOMAIN a THEN "trends" ELSE "error")
  /\ UNCHANGED <<file, api_key, llm, verify>>

\* choice 3 with a question
ChoiceQuery ==
  /\ pc = "menu"
  /\ \E query \in Queries : Runs(query, "none", LAMBDA a : "answer")
  /\ UNCHANGED <<file, api_key, llm, verify>>

\* choice 3 with an empty question
ChoiceEmptyQuery ==
  /\ pc = "menu"
  /\ console' = "empty_query"
  /\ pc' = "report"
  /\ UNCHANGED <<file, api_key, llm, verify, data, analysis, fault, dispatch,
                 exec, last_table>>

\* choice 4
ChoiceExit ==
  /\ pc = "menu"
  /\ pc' = "exit0"
  /\ console' = "goodbye"
  /\ UNCHANGED <<file, api_key, llm, verify, data, analysis, fault, dispatch,
                 exec, last_table>>

\* an invalid choice treated like an exception of the outer try block
ChoiceInvalidIsFatal ==
  /\ pc = "menu"
  /\ pc' = "exit1"
  /\ console' = "Critical Error: invalid choice"
  /\ UNCHANGED <<file, api_key, llm, verify, data, analysis, fault, dispatch,
                 exec, last_table>>

\* any other choice
ChoiceInvalid ==
  /\ pc = "menu"
  /\ console' = "invalid_choice"
  /\ pc' = "report"
  /\ UNCHANGED <<file, api_key, llm, verify, data, analysis, fault, dispatch,
                 exec, last_table>>

\* input() at the menu prompt meets the end of standard input: the EOFError
\* is raised outside the inner try block and reaches main's outer handler
EndOfInput ==
  /\ pc = "menu"
  /\ pc' = "exit1"
  /\ console' = "Critical Error: EOF when reading a line"
  /\ UNCHANGED <<file, api_key, llm, verify, data, analysis, fault, dispatch,
                 exec, last_table>>

\* the end of an iteration of the while loop: back to the prompt; the
\* iteration's locals (result, query) are dead, and the table a run call
\* worked on becomes the previous one
LoopBack ==
  /\ pc = "report"
  /\ pc' = "menu"
  /\ last_table' = IF data # NoData THEN data ELSE last_table
  /\ data' = NoData
  /\ analysis' = NoAnalysis
  /\ fault' = "none"
  /\ dispatch' = NoDispatch
  /\ exec' = NoExec
  /\ console' = "menu"
  /\ UNCHANGED <<file, api_key, llm, verify>>

Next ==
  \/ Help
  \/ Startup
  \/ TestLlm
  \/ EnterMenu
  \/ ChoiceSummary
  \/ ChoiceTrends
  \/ ChoiceQuery
  \/ ChoiceEmptyQuery
  \/ ChoiceExit
  \/ ChoiceInvalid
  \/ EndOfInput
  \/ LoopBack

Spec == Init /\ [][Next]_vars

\* ================================================================== claims
Dispatched == dispatch.handler # "none"
QueryLower == lower(dispatch.query)
Says(word) == Contains(word, QueryLower)

\* C1: the handler invoked for a query is the projection handler if the
\* lowercased text contains 'projection', 'forecast' or 'predict'; otherwise
\* the comparison handler if it contains 'compare', 'vs' or 'versus';
\* otherwise the ranking handler if it contains 'top', 'best', 'worst' or
\* 'ranking'; otherwise the general handler.
C1_RoutingFirstMatchWins ==
  Dispatched =>
    dispatch.handler =
      IF Says(<<"p", "r", "o", "j", "e", "c", "t", "i", "o", "n">>) \/ Says(<<"f", "o", "r", "e", "c", "a", "s", "t">>) \/ Says(<<"p", "r", "e", "d", "i", "c", "t">>)
        THEN "projection"
      ELSE IF Says(<<"c", "o", "m", "p", "a", "r", "e">>) \/ Says(<<"v", "s">>) \/ Says(<<"v", "e", "r", "s", "u", "s">>)
        THEN "comparison"
      ELSE IF Says(<<"t", "o", "p">>) \/ Says(<<"b", "e", "s", "t">>) \/ Says(<<"w", "o", "r", "s", "t">>) \/ Says(<<"r", "a", "n", "k", "i", "n", "g">>)
        THEN "ranking"
      ELSE "general"

\* a query with both 'top' and 'forecast' went to the projection handler
C1_Witness ==
  /\ Dispatched
  /\ Says(<<"t", "o", "p">>) /\ Says(<<"f", "o", "r", "e", "c", "a", "s", "t">>)
  /\ dispatch.handler = "projection"

\* C2: when the backend's response lacks the identifier execute_task put
\* into the prompt, the text returned begins with 'LLM_ERROR: ', is not the
\* response text, and nothing is raised.
C2_MissingCallIdIsError ==
  (exec.called /\ ~exec.reply.raised
     /\ ~Contains(str(exec.call_id), exec.reply.content)) =>
    /\ Head(exec.result) = "LLM_ERROR: "
    /\ exec.result # exec.reply.content
    /\ ~dispatch.raised
    /\ dispatch.text = <<exec.result>>

\* the backend answered with another call's identifier
C2_Witness ==
  /\ llm /\ exec.called /\ ~exec.reply.raised
  /\ exec.call_id = MinCallId
  /\ exec.reply.content = str(MaxCallId) \o <<" ", "o", "k">>
  /\ Head(exec.result) = "LLM_ERROR: "

\* C3: a general query that is not answered locally is answered by a call
\* of the gateway's execute operation, whose response is the handler result.
C3_GeneralFallsBackToGateway ==
  (/\ dispatch.handler = "general"
   /\ ~(Says(<<"g", "r", "o", "w", "t", "h">>) /\ "yearly_growth" \in DOMAIN analysis.summary)) =>
    /\ exec.called
    /\ dispatch.text = <<exec.result>>

HasGrowth ==
  /\ "summary" \in DOMAIN analysis
  /\ "yearly_growth" \in DOMAIN analysis.summary

IsZero(g) == g.kind = "num" /\ g.n = 0

\* C4: over the year-ordered totals t the growth rate is the mean of the
\* (t[i] - t[i-1]) / t[i-1]; it is positive for strictly increasing positive
\* totals, exactly 0.0 for constant totals, and exactly 0.0 for a single year.
C4_GrowthRate ==
  HasGrowth =>
    LET t == YearlyTotals(file.rows)
        g == analysis.summary.yearly_growth
        h == analysis.trends.growth_rate
    IN  /\ g = h
        /\ Len(t) < 2 => IsZero(g)
        /\ (Len(t) >= 2 /\ \A i \in 1..Len(t) : t[i] = t[1]) => IsZero(g)
        /\ (Len(t) >= 2 /\ t[1] > 0 /\ \A i \in 1..(Len(t) - 1) : t[i] < t[i + 1])
             => (g.kind = "num" /\ g.n > 0)
        /\ (Len(t) = 2 /\ t[1] > 0) => g = Rat(t[2] - t[1], t[1])
        /\ (Len(t) = 3 /\ t[1] > 0 /\ t[2] > 0)
             => g = Rat((t[2] - t[1]) * t[2] + (t[3] - t[2]) * t[1],
                        2 * t[1] * t[2])

ValidRows(rows) ==
  SelectSeq(rows, LAMBDA r : r.Make # <<>> /\ r.Model # <<>> /\ r.Quantity # NaN)

PairTotal(rows, mk, md) ==
  SumSeq([i \in 1..Len(rows) |->
            IF rows[i].Make = mk /\ rows[i].Model = md /\ rows[i].Quantity # NaN
              THEN rows[i].Quantity ELSE 0])

NoDataSentinels ==
  {<<"No data available">>, <<"No valid data available">>,
   <<"No sales data available">>}

\* C5: with at least one valid row the summary's top_make_model names a
\* (make, model) pair of the record set whose summed quantity is maximal;
\* with none it is a 'no data' sentinel, and the summary is not an error.
C5_TopMakeModel ==
  "summary" \in DOMAIN analysis =>
    LET valid == ValidRows(file.rows)
    IN  /\ "top_make_model" \in DOMAIN analysis.summary
        /\ IF valid = <<>>
             THEN analysis.summary.top_make_model \in NoDataSentinels
             ELSE \E i \in 1..Len(valid) :
                    /\ analysis.summary.top_make_model
                         = valid[i].Make \o <<" ">> \o valid[i].Model
                    /\ \A j \in 1..Len(valid) :
                         PairTotal(valid, valid[j].Make, valid[j].Model)
                           <= PairTotal(valid, valid[i].Make, valid[i].Model)

\* C6: for a non-empty record set with the required fields (Region being
\* optional) the summary has a total_sales field, the sum of all quantities.
C6_TotalSales ==
  ("summary" \in DOMAIN analysis /\ file.rows # <<>>) =>
    /\ "total_sales" \in DOMAIN analysis.summary
    /\ \E float \in BOOLEAN :
         analysis.summary.total_sales
           = FormatNum([v |-> SumSeq([i \in 1..Len(file.rows) |->
                                         IF file.rows[i].Quantity = NaN THEN 0
                                         ELSE file.rows[i].Quantity]),
                        float |-> float]) \o <<" units">>

\* C7: the keys of total_by_year are exactly the distinct years of the
\* records, and each value is the summed quantity of that year's records.
C7_TotalByYear ==
  "trends" \in DOMAIN analysis =>
    /\ "total_by_year" \in DOMAIN analysis.trends
    /\ DOMAIN analysis.trends.total_by_year
         = {file.rows[i].Year : i \in 1..Len(file.rows)}
    /\ \A y \in DOMAIN analysis.trends.total_by_year :
         analysis.trends.total_by_year[y].v
           = SumSeq([i \in 1..Len(file.rows) |->
                       IF file.rows[i].Year = y /\ file.rows[i].Quantity # NaN
                         THEN file.rows[i].Quantity ELSE 0])

\* a ranking query of the form 'top N' without another ranking keyword
TopWords == split(QueryLower)
IsTopNQuery ==
  /\ dispatch.handler = "ranking"
  /\ ~Says(<<"w", "o", "r", "s", "t">>) /\ ~Says(<<"e", "x", "p", "e", "n", "s", "i", "v", "e">>) /\ ~Says(<<"r", "e", "v", "e", "n", "u", "e">>)
  /\ \E i \in 1..(Len(TopWords) - 1) :
       /\ TopWords[i] = <<"t", "o", "p">>
       /\ \A j \in 1..(i - 1) : TopWords[j] # <<"t", "o", "p">>
       /\ isdigit(TopWords[i + 1])
AskedN ==
  int(TopWords[1 + CHOOSE i \in 1..(Len(TopWords) - 1) :
                     /\ TopWords[i] = <<"t", "o", "p">>
                     /\ \A j \in 1..(i - 1) : TopWords[j] # <<"t", "o", "p">>])

Pairs(rows) ==
  {<<rows[i].Make, rows[i].Model>> :
     i \in {j \in 1..Len(rows) : rows[j].Make # <<>> /\ rows[j].Model # <<>>}}

Min(a, b) == IF a < b THEN a ELSE b

\* C8: for 'top N' the ranking handler returns exactly the min(N, number of
\* groups) (make, model) groups with the largest summed quantity, in
\* descending order of summed quantity.
C8_TopNRanking ==
  IsTopNQuery =>
    LET groups == Pairs(file.rows)
        k      == Min(AskedN, Cardinality(groups))
        total(g) == PairTotal(file.rows, g[1], g[2])
    IN  /\ ~dispatch.raised
        /\ Len(dispatch.text) = k + 1
        /\ \E s \in [1..k -> groups] :
             /\ \A i, j \in 1..k : i # j => s[i] # s[j]
             /\ \A i \in 1..(k - 1) : total(s[i]) >= total(s[i + 1])
             /\ \A g \in groups :
                  (\A i \in 1..k : s[i] # g) =>
                     \A i \in 1..k : total(g) <= total(s[i])
             /\ \A i \in 1..k :
                  \E float \in BOOLEAN :
                    dispatch.text[i + 1]
                      = <<"- ">> \o s[i][1] \o <<" ">> \o s[i][2] \o <<": ">>
                          \o FormatNum([v |-> total(s[i]), float |-> float])
                          \o <<" units">>

\* 'Top 2' over three groups with different totals listed two of them
C8_Witness ==
  /\ IsTopNQuery
  /\ AskedN = 2
  /\ Cardinality(Pairs(file.rows)) = 3
  /\ Len(dispatch.text) = 3
  /\ dispatch.text[2] = <<"- ">> \o Ford \o <<" ">> \o ModelZ
                          \o <<": ", "2", "0", "0", " units">>

MatchedMakes ==
  {mk \in {file.rows[i].Make : i \in 1..Len(file.rows)} \ {<<>>} :
     Contains(lower(mk), QueryLower)}

\* C9: the comparison handler collects every distinct make whose lowercased
\* name is a substring of the lowercased query; with fewer than 2 it returns
\* the 'Could not identify two models/makes to compare' message, otherwise a
\* header line and exactly one line per matched make, carrying that make's
\* total quantity and mean price over exactly that make's records.
C9_Comparison ==
  dispatch.handler = "comparison" =>
    IF Cardinality(MatchedMakes) < 2
      THEN dispatch.text = <<<<"Could not identify two models/makes to compare">>>>
      ELSE /\ Len(dispatch.text) = 1 + Cardinality(MatchedMakes)
           /\ \A mk \in MatchedMakes :
                \E i \in 2..Len(dispatch.text) :
                  LET mine == SelectSeq(file.rows, LAMBDA r : r.Make = mk)
                  IN  \E float \in BOOLEAN :
                        dispatch.text[i]
                          = <<"- ">> \o mk \o <<": ">>
                              \o FormatNum([v |-> SumSeq([j \in 1..Len(mine) |->
                                                   IF mine[j].Quantity = NaN THEN 0
                                                   ELSE mine[j].Quantity]),
                                            float |-> float])
                              \o <<" units sold, ", "$">>
                              \o Format2f(MeanPrice(mine)) \o <<" avg price">>

\* C10: no query handler propagates an exception to _process_query: every
\* handler call returns a text.
C10_HandlersReturnText ==
  Dispatched => (~dispatch.raised /\ dispatch.text # <<>>)

\* an internal step of the ranking handler failed and it returned a message
C10_Witness ==
  /\ dispatch.handler = "ranking"
  /\ ~dispatch.raised
  /\ Head(Head(dispatch.text)) = "Could not generate rankings: "

\* ------------------------------------------------------------------- C11
Summarised  == "summary" \in DOMAIN analysis
BodyFails   == "Region" \notin data.columns \/ RegionKeys(data.rows) = {}
SummaryKeys == {"total_sales", "average_price", "top_make_model", "top_region",
                "yearly_growth", "price_distribution"}

Constructing == pc # "start" /\ console # "usage"

\* C12: constructing the gateway performs exactly one verification exchange,
\* and construction succeeds only if the response contains the token of the
\* prompt; if the response lacks it, or the backend call fails, or the API
\* credential is absent, construction fails with an error and there is no
\* gateway object on which execute_task could be called later.  (Without
\* the credential there is no client to send the prompt with, and without
\* the data file the crew never gets to construct the gateway.)
C12_OneVerificationExchange ==
  /\ verify.calls <= 1
  /\ llm => (api_key /\ verify.calls = 1 /\ ~verify.raised /\ verify.echoed)
  /\ exec.called => llm
  /\ Constructing =>
       /\ verify.calls = (IF file.exists /\ api_key THEN 1 ELSE 0)
       /\ (~api_key \/ verify.raised \/ ~verify.echoed) =>
            (~llm /\ pc = "exit1" /\ ~exec.called /\ analysis = NoAnalysis)

\* the backend answered the verification prompt without the token, and main
\* ended with the critical error, no gateway left behind
C12_Witness ==
  /\ pc = "exit1"
  /\ api_key /\ file.exists
  /\ verify.calls = 1 /\ ~verify.raised /\ ~verify.echoed
  /\ ~llm
  /\ console = "Critical Error: Verification failed"

\* ------------------------------------------------------------------- C13
\* C13: main terminates only through menu choice 4 or the help/test flags,
\* with exit code 0, or through a startup failure caused by a missing data
\* file or a missing API credential, with exit code 1; nothing else ends the
\* process.
C13_TerminationPolicy ==
  /\ pc = "exit0" => console \in {"goodbye", "usage", "llm_test"}
  /\ pc = "exit1" => console \in {"Critical Error: Data file not found",
                                  "Critical Error: GROQ_API_KEY missing in .env"}

StartupFailures ==
  {"Critical Error: Data file not found",
   "Critical Error: GROQ_API_KEY missing in .env",
   "Critical Error: backend failure",
   "Critical Error: Verification failed"}

TerminationStep ==
  /\ (pc' = "exit0" /\ pc # "exit0") =>
        \/ pc = "menu" /\ console' = "goodbye"
        \/ pc = "start" /\ console' = "usage"
        \/ pc = "constructed" /\ console' = "llm_test"
  /\ (pc' = "exit1" /\ pc # "exit1") =>
        \/ pc = "start" /\ console' \in StartupFailures
        \/ pc = "menu" /\ console' = "Critical Error: EOF when reading a line"
  /\ pc = "report" => pc' = "menu"
  /\ (pc = "menu" /\ pc' \notin {"exit0", "exit1"}) =>
        /\ pc' = "report"
        /\ console' \in {"summary", "trends", "answer", "error", "empty_query",
                         "invalid_choice"}
  /\ pc \in {"exit0", "exit1"} => pc' = pc

\* C13 as the code has it: main ends with exit code 0 through menu choice 4,
\* --help or --test-llm, and with exit code 1 through an exception that
\* reaches its outer handler: at startup a missing data file, a missing API
\* credential or a failed verification of the gateway (the backend call
\* fails or its response lacks the token), at the menu prompt the end of
\* standard input.  Inside the loop every invalid choice, empty query,
\* aggregation error, handler error and gateway error is reported and the
\* next step is the menu prompt.
C13_TerminatesAsCoded == [][TerminationStep]_vars

\* the backend failed during the verification at startup, and main ended
\* with exit code 1 although file and credential were there
C13_Witness ==
  /\ pc = "exit1"
  /\ file.exists /\ api_key
  /\ verify.raised
  /\ console = "Critical Error: backend failure"

\* ------------------------------------------------------------------- C14
\* the N the ranking is asked for: the number after the first token 'top',
\* the default otherwise
RankingN ==
  IF \E i \in 1..(Len(TopWords) - 1) :
       /\ TopWords[i] = <<"t", "o", "p">>
       /\ \A j \in 1..(i - 1) : TopWords[j] # <<"t", "o", "p">>
       /\ isdigit(TopWords[i + 1])
    THEN AskedN
    ELSE DefaultTopN

\* C14: in the ranking handler N is 3 by default and is replaced by the
\* integer value of the token that follows the word 'top' when that token is
\* numeric; for every query routed to the ranking handler, also one where
\* 'top' occurs only inside a longer word or is the last token, the handler
\* returns a ranking (a header 'Top N' or 'Worst N' and the result lines),
\* not an error message.
C14_RankingForEveryQuery ==
  dispatch.handler = "ranking" =>
    /\ ~dispatch.raised
    /\ dispatch.text # <<>>
    /\ LET header == Head(dispatch.text)
       IN  /\ Head(header) \in {"Top", "Worst"}
           /\ Len(header) >= 2 + Len(str(RankingN))
           /\ SubSeq(header, 3, 2 + Len(str(RankingN))) = str(RankingN)

\* ------------------------------------------------------------------- C15
\* a run call has loaded the table and returned
Loaded == pc = "report" /\ Loads(file) /\ analysis # NoAnalysis

\* C15: within one run the record table is read-only: get_sales_summary,
\* get_yearly_trends and each of the four query handlers leave the table
\* they are given unchanged (same columns, same values in every row), so the
\* table is, after the handler, the table _load_data produced.
C15_RecordStoreReadOnly ==
  Loaded =>
    /\ data.columns = file.columns \cup {"Date"}
    /\ data.rows = file.rows

\* ------------------------------------------------------------------- C16
\* C16: every table run hands to the aggregator and the handlers has had the
\* defaults for missing values and the derived fields applied: no record has
\* a missing quantity or a missing price, and every record carries a revenue
\* (quantity times price).
C16_TablePreprocessed ==
  Loaded =>
    /\ \A i \in 1..Len(data.rows) :
         data.rows[i].Quantity # NaN /\ data.rows[i].Price # NaN
    /\ "Revenue" \in _load_data(file).columns

\* ------------------------------------------------------------------- C17
\* a general query that the handler does not answer from the growth figure
FallsBack ==
  /\ dispatch.handler = "general"
  /\ ~(Says(<<"g", "r", "o", "w", "t", "h">>) /\ HasGrowth)

\* C17: processing one query makes exactly one backend call for a
\* projection query and for a general query that falls back to the gateway,
\* and none for a comparison query, a ranking query and a general query
\* answered from 'growth'; a failed call is not retried, so no query makes
\* more than one.
C17_BackendCallsPerQuery ==
  Dispatched =>
    /\ exec.calls <= 1
    /\ exec.calls = (IF dispatch.handler = "projection" \/ FallsBack
                       THEN 1 ELSE 0)
    /\ exec.called <=> exec.calls = 1

\* ------------------------------------------------------------------- C18
\* the table a crew that has not run yet reads from the file
FreshTable == [columns |-> file.columns \cup {"Date"}, rows |-> file.rows]

\* C18: run calls are isolated: every call reloads the table from the source
\* file and recomputes summary and trends from it, so after any sequence of
\* earlier calls, the ones that modify their in-memory table included, the
\* summary, the trends and the locally computed response of a call equal
\* those of the same call made first on a fresh crew over the same file.
\* (A report state is reached from the prompt with each table an earlier
\* call can have left; what it holds is computed here from the file alone.)
C18_RunsAreIsolated ==
  (pc = "report" /\ analysis # NoAnalysis) =>
    IF ~Loads(file)
      THEN /\ DOMAIN analysis = {"error"}
           /\ data = NoData
           /\ dispatch = NoDispatch
      ELSE /\ analysis.summary = get_sales_summary(FreshTable, fault)
           /\ analysis.trends = get_yearly_trends(FreshTable)
           /\ analysis.metadata = Metadata(FreshTable)
           /\ IF dispatch.handler = "none"
                THEN data = FreshTable /\ "query_response" \notin DOMAIN analysis
                ELSE \E p \in _process_query(FreshTable, dispatch.query, llm) :
                        /\ p.handler = dispatch.handler
                        /\ p.text = dispatch.text
                        /\ p.exec = exec
                        /\ p.data = data
                        /\ analysis.query_response = p.text

\* main is at the prompt again after a revenue ranking, whose table with the
\* added Revenue column is the one the next call finds left behind
C18_Witness ==
  /\ pc = "menu"
  /\ "Revenue" \in last_table.columns
  /\ Len(last_table.rows) = MaxRows
  /\ last_table.rows = file.rows

====
